---- MODULE Spec2Model ----
(***************************************************************************)
(* axum-cognito: a tower middleware (CognitoAuthMiddleware) that reads the *)
(* Authorization header of a request, has CognitoValidator verify the      *)
(* token against the Cognito key set, and either answers 400/401 itself or *)
(* forwards the request, with the decoded claims attached, to the inner    *)
(* service.                                                                *)
(*                                                                         *)
(* Header values and tokens are sequences of bytes (integers).  A token is *)
(* a compact string of seven bytes, one per field the verifier reads:      *)
(*   <<kid, signature, exp, aud/client_id, iss, token_use, sub>>.          *)
(***************************************************************************)
EXTENDS Integers, Sequences, FiniteSets, TLC

\* Number of requests sent through one middleware instance.
MaxReq == 2

Req == 1..MaxReq

----------------------------------------------------------------------------
(* Bytes *)

\* The byte codes the model's header values are written with.
Ch ==
  [ SP |-> 32, HT |-> 9, OBS |-> 128,
    K1 |-> 49, K2 |-> 50,
    SigOk |-> 83, SigBad |-> 120,
    ExpFuture |-> 70, ExpPast |-> 80,
    AudC1 |-> 67, AudC2 |-> 68,
    IssP1 |-> 73, IssP2 |-> 74,
    UseId |-> 105, UseAccess |-> 97,
    SubA |-> 65, SubB |-> 66, SubNone |-> 78 ]

\* "Bearer "
Bearer == <<66, 101, 97, 114, 101, 114, 32>>

\* "bearer ": the scheme in lower case, as long as "Bearer "
BearerLower == <<98, 101, 97, 114, 101, 114, 32>>

\* "Bear ": a scheme shorter than "Bearer "
BearShort == <<66, 101, 97, 114, 32>>

----------------------------------------------------------------------------
(* Tokens *)

OAuthTokenType == {"Id", "Access"}

MkToken(kid, sig, exp, aud, iss, use, sub) == <<kid, sig, exp, aud, iss, use, sub>>

\* The token-use marker of a token type.
UseOf(tt) == IF tt = "Id" THEN Ch.UseId ELSE Ch.UseAccess

OtherUse(tt) == IF tt = "Id" THEN Ch.UseAccess ELSE Ch.UseId

\* A token signed by key `kid` with correct claims for token type tt.
GoodToken(tt, kid, sub) ==
  MkToken(kid, Ch.SigOk, Ch.ExpFuture, Ch.AudC1, Ch.IssP1, UseOf(tt), sub)

\* GoodToken with one field corrupted.
Corrupted(tt, field) ==
  [GoodToken(tt, Ch.K1, Ch.SubA) EXCEPT ![field] =
     CASE field = 2 -> Ch.SigBad
       [] field = 3 -> Ch.ExpPast
       [] field = 4 -> Ch.AudC2
       [] field = 5 -> Ch.IssP2
       [] field = 6 -> OtherUse(tt)]

ContentFields == 2..6

\* The tokens clients present.
Tokens ==
  UNION { { GoodToken(tt, Ch.K1, Ch.SubA), GoodToken(tt, Ch.K1, Ch.SubB),
            GoodToken(tt, Ch.K1, Ch.SubNone),
            GoodToken(tt, Ch.K2, Ch.SubA) }
          \cup { Corrupted(tt, f) : f \in ContentFields } : tt \in {"Id"} }


----------------------------------------------------------------------------
(* Requests and responses *)

NoHeader == [present |-> FALSE, value |-> <<>>]

SomeHeader(v) == [present |-> TRUE, value |-> v]

\* The values of the Authorization header clients send.
HeaderValues ==
  { Bearer \o t : t \in Tokens }
    \cup { <<>>,                                                  \* empty
           <<66, 101, 97, 114>>,                                  \* "Bear"
           Bearer \o <<Ch.SP, Ch.HT>> \o GoodToken("Id", Ch.K1, Ch.SubA),
           Bearer \o GoodToken("Id", Ch.K1, Ch.SubA) \o <<Ch.SP>>,
           BearerLower \o GoodToken("Id", Ch.K1, Ch.SubA),
           BearShort \o GoodToken("Id", Ch.K1, Ch.SubA),
           Bearer \o GoodToken("Id", Ch.K1, Ch.SubA) \o <<Ch.OBS>> }

Headers == {NoHeader} \cup { SomeHeader(v) : v \in HeaderValues }

\* The rest of a request: method, URI and body.
GetRoot == [method |-> "GET", uri |-> "/", body |-> ""]

RequestParts == {GetRoot, [method |-> "POST", uri |-> "/items", body |-> "data"]}

\* A request: method, URI, its Authorization header, its extensions, body.
MkRequest(h, p) ==
  [method |-> p.method, uri |-> p.uri, header |-> h, extensions |-> <<>>,
   body |-> p.body]

\* request.into_parts(): <<parts, body>>
into_parts(request) ==
  <<[method |-> request.method, uri |-> request.uri, header |-> request.header,
     extensions |-> request.extensions], request.body>>

\* Mutant: the request is rebuilt with an empty body.
from_parts_empty_body(parts, body) ==
  [method |-> parts.method, uri |-> parts.uri, header |-> parts.header,
   extensions |-> parts.extensions, body |-> ""]

\* Request::from_parts(parts, body)
from_parts(parts, body) ==
  [method |-> parts.method, uri |-> parts.uri, header |-> parts.header,
   extensions |-> parts.extensions, body |-> body]

\* No request received (ds_calls tells it from a received one).
NoRequest == MkRequest(NoHeader, GetRoot)

MkResponse(status, body) == [status |-> status, body |-> body]

\* Mutant: the status is left at Response::default()'s 200.
create_bad_request_response_default_status(body_text) == MkResponse(200, body_text)

\* create_bad_request_response: 400 with the text as body.
create_bad_request_response(body_text) == MkResponse(400, body_text)

\* Response::default() with status UNAUTHORIZED: 401, empty body.
unauthorized_response == MkResponse(401, "")

\* What the inner service may answer.
DownstreamResults ==
  { [kind |-> "Ok", response |-> MkResponse(200, "hello")],
    [kind |-> "Err", error |-> "inner error"] }

NoResult == [kind |-> "None"]

OkResult(response) == [kind |-> "Ok", response |-> response]

----------------------------------------------------------------------------
(* Header parsing *)

\* Mutant: a lossy conversion that never fails.
to_str_ok_lossy(v) == TRUE

\* HeaderValue::to_str succeeds when every byte is visible ASCII or a tab.
to_str_ok(v) == \A i \in 1..Len(v) : v[i] = Ch.HT \/ (v[i] >= 32 /\ v[i] < 127)

IsWhitespace(b) == b = Ch.SP \/ b = Ch.HT

RECURSIVE trim_start(_)
trim_start(s) ==
  IF s # <<>> /\ IsWhitespace(Head(s)) THEN trim_start(Tail(s)) ELSE s

\* raw_token["Bearer ".len()..] panics when the text is shorter than the prefix.
slice_panics(raw) == Len(raw) < Len(Bearer)

\* raw_token["Bearer ".len()..].trim_start()
extract_token(raw) == trim_start(SubSeq(raw, Len(Bearer) + 1, Len(raw)))

----------------------------------------------------------------------------
(* Verification: KeySet::verify with the verifier CognitoValidator::new built *)

VerifyOk(claims) == [ok |-> TRUE, claims |-> claims]

VerifyErr(error) == [ok |-> FALSE, error |-> error]

NoVerification == [ok |-> FALSE, error |-> "not run"]

WellFormed(tok) ==
  /\ Len(tok) = 7
  /\ tok[1] \in {Ch.K1, Ch.K2}
  /\ tok[2] \in {Ch.SigOk, Ch.SigBad}
  /\ tok[3] \in {Ch.ExpFuture, Ch.ExpPast}
  /\ tok[4] \in {Ch.AudC1, Ch.AudC2}
  /\ tok[5] \in {Ch.IssP1, Ch.IssP2}
  /\ tok[6] \in {Ch.UseId, Ch.UseAccess}
  /\ tok[7] \in {Ch.SubA, Ch.SubB, Ch.SubNone}

\* The claim set of a token: a token may carry no "sub" claim.
ClaimsOf(tok) ==
  IF tok[7] = Ch.SubNone
    THEN [token_use |-> tok[6]]
    ELSE [token_use |-> tok[6], sub |-> tok[7]]

\* The claim rules of the verifier built for token type tt and the client id:
\* audience/client binding, issuer, token-use marker.
token_verifier(tt, tok) ==
  /\ tok[4] = Ch.AudC1
  /\ tok[5] = Ch.IssP1
  /\ tok[6] = UseOf(tt)

\* One verification attempt against the cached keys.
try_verify(tok, cache, tt) ==
  IF ~WellFormed(tok) THEN VerifyErr("MalformedToken")
  ELSE IF tok[1] \notin cache THEN VerifyErr("CacheMiss")
  ELSE IF tok[2] # Ch.SigOk THEN VerifyErr("InvalidSignature")
  ELSE IF tok[3] # Ch.ExpFuture THEN VerifyErr("TokenExpired")
  ELSE IF ~token_verifier(tt, tok) THEN VerifyErr("InvalidClaim")
  ELSE VerifyOk(ClaimsOf(tok))

\* serde_json::from_value into the caller's claims type UC, a struct with the
\* one required field `sub`.
from_value_ok(claims) == "sub" \in DOMAIN claims

from_value(claims) == [sub |-> claims.sub]

ValidatedOk(option) == [tag |-> "Ok", some |-> option]

ValidatedErr(error) == [tag |-> "Err", error |-> error]

NotValidated == [tag |-> "None"]

\* Mutant: the verification error is propagated with `?`.
validate_token_propagates(verification) ==
  IF verification.ok
    THEN IF from_value_ok(verification.claims)
           THEN ValidatedOk(<<from_value(verification.claims)>>)
           ELSE ValidatedErr("SerdeJson")
    ELSE ValidatedErr(verification.error)

\* CognitoValidator::validate_token, given what key_set.verify returned.
validate_token(verification) ==
  IF verification.ok
    THEN IF from_value_ok(verification.claims)
           THEN ValidatedOk(<<from_value(verification.claims)>>)
           ELSE ValidatedErr("SerdeJson")
    ELSE ValidatedOk(<<>>)

----------------------------------------------------------------------------
(* The middleware's own steps *)

\* Mutant: the stored handle is given to the future and kept as well.
handoff_shared(stored, clone) == <<stored, stored>>

\* Mutant: the future takes the clone and the middleware keeps the service
\* that was polled ready.
handoff_swapped(stored, clone) == <<clone, stored>>

\* call: the future takes the stored inner service, the middleware keeps the
\* clone. <<the future's handle, the stored handle>>
handoff(stored, clone) == <<stored, clone>>

\* Mutant: the request is forwarded without the claims.
insert_claims_dropped(request, user_claims) == request

\* extensions.insert(user_claims)
insert_claims(request, user_claims) ==
  [request EXCEPT !.extensions = <<user_claims>>]

\* poll_ready: the inner service's own answer.
poll_ready(inner_poll) == inner_poll

\* Mutant: an error of the inner service is turned into a 500 response.
call_result_swallowed(res) ==
  IF res.kind = "Err" THEN OkResult(MkResponse(500, "")) ELSE OkResult(res.response)

\* inner.call(request).await? then Ok(response)
call_result(res) == IF res.kind = "Err" THEN res ELSE OkResult(res.response)

----------------------------------------------------------------------------
(* State *)

VARIABLES
  layer,         \* construction: "unbuilt", "ok" or "failed"
  token_type,    \* the token type the verifier was built for
  jwks,          \* the key ids the identity provider publishes
  key_set,       \* the key ids the KeySet has cached
  mw_inner,      \* CognitoAuthMiddleware.inner: the stored handle (0: none)
  next_handle,   \* the next handle S::clone makes
  pc,            \* per request: where its future stands
  header,        \* per request: its Authorization header
  parts,         \* per request: its method, URI and body
  inner,         \* per request: the handle its future owns (0: none)
  token,         \* per request: the string given to validate_token
  verify_calls,  \* per request: calls of validate_token
  verification,  \* per request: what key_set.verify returned
  validated,     \* per request: what validate_token returned
  ds_calls,      \* per request: calls of the inner service
  ds_request,    \* per request: the request the inner service received
  ds_result,     \* per request: what the inner service returned
  outcome,       \* per request: what the middleware's future resolved to
  refresh,       \* per request: the key-set fetch it made: "none", "failed", "done"
  ready,         \* the handles whose poll_ready has returned Ready
  polled         \* the last poll_ready: the handle, its answer, the middleware's

vars ==
  <<layer, token_type, jwks, key_set, mw_inner, next_handle, pc, header, parts,
    inner,
    token, verify_calls, verification, validated, ds_calls, ds_request,
    ds_result, outcome, refresh, ready, polled>>

env_vars == <<layer, token_type, jwks, key_set>>

handle_vars == <<mw_inner, next_handle, inner, ready, polled>>

verify_vars == <<token, verify_calls, verification, validated>>

ds_vars == <<ds_calls, ds_request, ds_result>>

InFlight(r) == pc[r] \in {"created", "verifying", "fetching", "downstream"}

Init ==
  /\ layer = "unbuilt"
  /\ token_type = "Id"
  /\ jwks = {Ch.K1}
  /\ key_set = {}
  /\ mw_inner = 0
  /\ next_handle = 1
  /\ pc = [r \in Req |-> "idle"]
  /\ header = [r \in Req |-> NoHeader]
  /\ parts = [r \in Req |-> GetRoot]
  /\ inner = [r \in Req |-> 0]
  /\ token = [r \in Req |-> <<>>]
  /\ verify_calls = [r \in Req |-> 0]
  /\ verification = [r \in Req |-> NoVerification]
  /\ validated = [r \in Req |-> NotValidated]
  /\ ds_calls = [r \in Req |-> 0]
  /\ ds_request = [r \in Req |-> NoRequest]
  /\ ds_result = [r \in Req |-> NoResult]
  /\ outcome = [r \in Req |-> NoResult]
  /\ refresh = [r \in Req |-> "none"]
  /\ ready = {}
  /\ polled = [handle |-> 0, inner |-> "none", result |-> "none"]

----------------------------------------------------------------------------
(* Construction *)

\* Mutant: the result of prefetch_jwks is dropped, so a failed prefetch still
\* yields a validator, with no key cached.
New_prefetch_ignored ==
  /\ layer = "unbuilt"
  /\ \E tt \in OAuthTokenType :
       \E step \in {"KeySet::new", "prefetch_jwks", "build", "none"} :
         IF step \in {"none", "prefetch_jwks"}
           THEN /\ layer' = "ok"
                /\ token_type' = tt
                /\ key_set' = IF step = "none" THEN jwks ELSE {}
                /\ mw_inner' = next_handle
                /\ next_handle' = next_handle + 1
           ELSE /\ layer' = "failed"
                /\ UNCHANGED <<token_type, key_set, mw_inner, next_handle>>
  /\ UNCHANGED <<jwks, pc, header, parts, inner, verify_vars, ds_vars, outcome,
                 refresh, ready, polled>>

\* CognitoAuthLayer::new / CognitoValidator::new, then Layer::layer: each of
\* KeySet::new, prefetch_jwks and build may fail.
New ==
  /\ layer = "unbuilt"
  /\ \E tt \in OAuthTokenType :
       \E step \in {"KeySet::new", "prefetch_jwks", "build", "none"} :
         IF step = "none"
           THEN /\ layer' = "ok"
                /\ token_type' = tt
                /\ key_set' = jwks
                /\ mw_inner' = next_handle
                /\ next_handle' = next_handle + 1
           ELSE /\ layer' = "failed"
                /\ UNCHANGED <<token_type, key_set, mw_inner, next_handle>>
  /\ UNCHANGED <<jwks, pc, header, parts, inner, verify_vars, ds_vars, outcome,
                 refresh, ready, polled>>

\* The identity provider rotates its keys: it now publishes K2 too.
Rotate ==
  /\ jwks = {Ch.K1}
  /\ jwks' = {Ch.K1, Ch.K2}
  /\ UNCHANGED <<layer, token_type, key_set, handle_vars, pc, header,
                 parts, verify_vars, ds_vars, outcome, refresh>>

----------------------------------------------------------------------------
(* CognitoAuthMiddleware::call *)

\* The synchronous part of call: clone the validator and the inner service,
\* swap the clone in, and box the future that owns the request.
CallWith(r, hs, ps) ==
  /\ layer = "ok"
  /\ pc[r] = "idle"
  /\ \A q \in Req : q < r => pc[q] # "idle"
  /\ \E h \in hs :
       /\ header' = [header EXCEPT ![r] = h]
       /\ \E p \in ps : parts' = [parts EXCEPT ![r] = p]
       /\ inner' = [inner EXCEPT ![r] = handoff(mw_inner, next_handle)[1]]
       /\ mw_inner' = handoff(mw_inner, next_handle)[2]
       /\ next_handle' = next_handle + 1
       /\ pc' = [pc EXCEPT ![r] = "created"]
  /\ UNCHANGED <<env_vars, verify_vars, ds_vars, outcome, refresh, ready, polled>>

\* CognitoAuthMiddleware::poll_ready: the stored inner service is polled.
PollReady ==
  /\ layer = "ok"
  /\ \E res \in {"Ready", "Pending", "Err"} :
       /\ polled' = [handle |-> mw_inner, inner |-> res, result |-> poll_ready(res)]
       /\ ready' = IF res = "Ready" THEN ready \cup {mw_inner} ELSE ready
  /\ UNCHANGED <<env_vars, mw_inner, next_handle, inner, pc, header, parts,
                 verify_vars, ds_vars, outcome, refresh>>

\* call, with any of the headers clients send.
Call(r) == CallWith(r, Headers, {GetRoot})

\* Headers whose token names a key id the key set has not cached.
UnknownKidHeaders ==
  { SomeHeader(Bearer \o GoodToken(tt, Ch.K2, Ch.SubA)) : tt \in OAuthTokenType }

\* call, with a token that names a key id unknown to the key set.
CallUnknownKid(r) == CallWith(r, UnknownKidHeaders, {GetRoot})

\* Headers of each outcome: none, accepted, rejected, unknown key id.
FrameHeaders ==
  { NoHeader,
    SomeHeader(Bearer \o GoodToken("Id", Ch.K1, Ch.SubA)),
    SomeHeader(Bearer \o GoodToken("Id", Ch.K2, Ch.SubB)),
    SomeHeader(Bearer \o Corrupted("Id", 4)) }

\* call, with requests that differ in method, URI and body.
CallFramed(r) == CallWith(r, FrameHeaders, RequestParts)

\* call by a caller that has driven poll_ready to Ready first.
CallReady(r) == mw_inner \in ready /\ CallWith(r, FrameHeaders, {GetRoot})

\* The future resolves to a response the middleware made itself.
Respond(r, response) ==
  /\ outcome' = [outcome EXCEPT ![r] = OkResult(response)]
  /\ pc' = [pc EXCEPT ![r] = "done"]

\* The future's first poll: from the header to the call of validate_token.
Poll(r) ==
  /\ pc[r] = "created"
  /\ IF ~header[r].present
       THEN /\ Respond(r, create_bad_request_response("Missing 'Authorization' header"))
            /\ UNCHANGED <<token, verify_calls>>
     ELSE IF ~to_str_ok(header[r].value)
       THEN /\ Respond(r, create_bad_request_response("Malformed token"))
            /\ UNCHANGED <<token, verify_calls>>
     ELSE IF slice_panics(header[r].value)
       THEN /\ pc' = [pc EXCEPT ![r] = "panicked"]
            /\ UNCHANGED <<token, verify_calls, outcome>>
     ELSE /\ token' = [token EXCEPT ![r] = extract_token(header[r].value)]
          /\ verify_calls' = [verify_calls EXCEPT ![r] = @ + 1]
          /\ pc' = [pc EXCEPT ![r] = "verifying"]
          /\ UNCHANGED outcome
  /\ UNCHANGED <<env_vars, handle_vars, header, parts, verification, validated, ds_vars,
                 refresh>>

\* Mutant: the validator remembers the claims it last returned and hands them
\* to whichever request asks next.
Resume_memoized(r, v) ==
  /\ verification' = [verification EXCEPT ![r] = v]
  /\ LET memo == { q \in Req : validated[q].tag = "Ok" /\ validated[q].some # <<>> }
         some_claims == IF memo # {}
                          THEN validated[CHOOSE q \in memo : TRUE]
                          ELSE validate_token(v)
     IN
       /\ validated' = [validated EXCEPT ![r] = some_claims]
       /\ IF some_claims.tag = "Err"
            THEN /\ Respond(r, create_bad_request_response("Missing 'Authorization' header"))
                 /\ UNCHANGED <<ds_calls, ds_request>>
          ELSE IF some_claims.some = <<>>
            THEN /\ Respond(r, unauthorized_response)
                 /\ UNCHANGED <<ds_calls, ds_request>>
          ELSE /\ ds_request' = [ds_request EXCEPT ![r] =
                    insert_claims(from_parts(into_parts(MkRequest(header[r], parts[r]))[1],
                                        into_parts(MkRequest(header[r], parts[r]))[2]),
                              some_claims.some[1])]
               /\ ds_calls' = [ds_calls EXCEPT ![r] = @ + 1]
               /\ pc' = [pc EXCEPT ![r] = "downstream"]
               /\ UNCHANGED outcome
  /\ UNCHANGED <<layer, token_type, jwks, handle_vars, header, parts, token,
                 verify_calls, ds_result>>

\* validate_token returns and the future runs on: a local 400 or 401, or the
\* claims go into the request's extensions and the inner service is called.
Resume(r, v) ==
  /\ verification' = [verification EXCEPT ![r] = v]
  /\ validated' = [validated EXCEPT ![r] = validate_token(v)]
  /\ LET some_claims == validate_token(v) IN
       IF some_claims.tag = "Err"
         THEN /\ Respond(r, create_bad_request_response("Missing 'Authorization' header"))
              /\ UNCHANGED <<ds_calls, ds_request>>
       ELSE IF some_claims.some = <<>>
         THEN /\ Respond(r, unauthorized_response)
              /\ UNCHANGED <<ds_calls, ds_request>>
       ELSE /\ ds_request' = [ds_request EXCEPT ![r] =
                 insert_claims(from_parts(into_parts(MkRequest(header[r], parts[r]))[1],
                                        into_parts(MkRequest(header[r], parts[r]))[2]),
                              some_claims.some[1])]
            /\ ds_calls' = [ds_calls EXCEPT ![r] = @ + 1]
            /\ pc' = [pc EXCEPT ![r] = "downstream"]
            /\ UNCHANGED outcome
  /\ UNCHANGED <<layer, token_type, jwks, handle_vars, header, parts, token,
                 verify_calls, ds_result>>

\* key_set.verify against the cached keys; an unknown key id makes it fetch.
Verify(r) ==
  /\ pc[r] = "verifying"
  /\ LET v == try_verify(token[r], key_set, token_type) IN
       IF ~v.ok /\ v.error = "CacheMiss"
         THEN /\ pc' = [pc EXCEPT ![r] = "fetching"]
              /\ UNCHANGED <<env_vars, handle_vars, header, parts, verify_vars,
                             ds_vars, outcome>>
         ELSE /\ Resume(r, v)
              /\ UNCHANGED key_set
  /\ UNCHANGED refresh

\* Mutant: the fetch is retried until the token's key id is published.
Fetch_until_published(r) ==
  /\ pc[r] = "fetching"
  /\ token[r][1] \in jwks
  /\ key_set' = jwks
  /\ refresh' = [refresh EXCEPT ![r] = "done"]
  /\ Resume(r, try_verify(token[r], jwks, token_type))

\* The fetch of the key set ends: with a network error, or with the published
\* keys replacing the cached ones and a second verification attempt.
Fetch(r) ==
  /\ pc[r] = "fetching"
  /\ \/ /\ Resume(r, VerifyErr("NetworkError"))
        /\ refresh' = [refresh EXCEPT ![r] = "failed"]
        /\ UNCHANGED key_set
     \/ /\ key_set' = jwks
        /\ refresh' = [refresh EXCEPT ![r] = "done"]
        /\ Resume(r, try_verify(token[r], jwks, token_type))

\* The inner service answers.
DownstreamReturn(r) ==
  /\ pc[r] = "downstream"
  /\ \E res \in DownstreamResults :
       /\ ds_result' = [ds_result EXCEPT ![r] = res]
       /\ outcome' = [outcome EXCEPT ![r] = call_result(res)]
  /\ pc' = [pc EXCEPT ![r] = "done"]
  /\ UNCHANGED <<env_vars, handle_vars, header, parts, verify_vars, ds_calls, ds_request,
                 refresh>>

Next ==
  \/ New
  \/ Rotate
  \/ \E r \in Req : Call(r)
  \/ \E r \in Req : Poll(r)
  \/ \E r \in Req : Verify(r)
  \/ \E r \in Req : Fetch(r)
  \/ \E r \in Req : DownstreamReturn(r)

Spec == Init /\ [][Next]_vars

\* Only requests whose token names a key id unknown to the key set.
NextUnknownKid ==
  \/ New
  \/ Rotate
  \/ \E r \in Req : CallUnknownKid(r)
  \/ \E r \in Req : Poll(r)
  \/ \E r \in Req : Verify(r)
  \/ \E r \in Req : Fetch(r)
  \/ \E r \in Req : DownstreamReturn(r)

\* The executor polls every future until it resolves; the key fetch and the
\* inner service answer.
Fairness ==
  \A r \in Req :
    /\ WF_vars(Poll(r))
    /\ WF_vars(Verify(r))
    /\ WF_vars(Fetch(r))
    /\ WF_vars(DownstreamReturn(r))

SpecUnknownKid == Init /\ [][NextUnknownKid]_vars /\ Fairness

\* Requests that differ in method, URI and body.
NextFramed ==
  \/ New
  \/ Rotate
  \/ \E r \in Req : CallFramed(r)
  \/ \E r \in Req : Poll(r)
  \/ \E r \in Req : Verify(r)
  \/ \E r \in Req : Fetch(r)
  \/ \E r \in Req : DownstreamReturn(r)

SpecFramed == Init /\ [][NextFramed]_vars

\* A caller that drives poll_ready to Ready before each call.
NextReady ==
  \/ New
  \/ Rotate
  \/ PollReady
  \/ \E r \in Req : CallReady(r)
  \/ \E r \in Req : Poll(r)
  \/ \E r \in Req : Verify(r)
  \/ \E r \in Req : Fetch(r)
  \/ \E r \in Req : DownstreamReturn(r)

SpecReady == Init /\ [][NextReady]_vars

----------------------------------------------------------------------------
(* Properties *)

MissingHeaderOutcome ==
  [kind |-> "Ok",
   response |-> [status |-> 400, body |-> "Missing 'Authorization' header"]]

UnauthorizedOutcome == [kind |-> "Ok", response |-> [status |-> 401, body |-> ""]]

\* C1: a request with no Authorization header ends with a 400 response whose
\* body is "Missing 'Authorization' header", and the inner service is never
\* called for it.
C1_MissingHeader ==
  \A r \in Req :
    (pc[r] # "idle" /\ ~header[r].present) =>
      /\ ds_calls[r] = 0
      /\ pc[r] \in {"created", "done"}
      /\ pc[r] = "done" => outcome[r] = MissingHeaderOutcome

C1_Witness == \E r \in Req : pc[r] = "done" /\ ~header[r].present

\* C2: when the token passes verification and its claims deserialize into UC,
\* the inner service is called exactly once, with the request carrying the
\* claims of that request's own token, and the middleware resolves to what the
\* inner service returned.
C2_Forwarded ==
  \A r \in Req :
    (verification[r].ok /\ "sub" \in DOMAIN verification[r].claims) =>
      /\ ds_calls[r] = 1
      /\ ds_request[r].header = header[r]
      /\ ds_request[r].extensions = <<[sub |-> token[r][7]]>>
      /\ pc[r] \in {"downstream", "done"}
      /\ pc[r] = "done" => (outcome[r] = ds_result[r] /\ ds_result[r] \in DownstreamResults)

C2_Witness ==
  \E r \in Req :
    /\ pc[r] = "done"
    /\ verification[r].ok
    /\ ds_request[r].extensions = <<[sub |-> Ch.SubB]>>
    /\ ds_calls[r] = 1

\* The header value is "Bearer " followed by the token tok.
IsBearerOf(v, tok) == v = Bearer \o tok

\* tok differs from a correct token for type tt in exactly one of signature,
\* exp, aud, iss and token-use marker.
SinglyCorrupted(tok, tt) ==
  /\ Len(tok) = 7
  /\ tok[1] \in {Ch.K1, Ch.K2}
  /\ tok[7] \in {Ch.SubA, Ch.SubB, Ch.SubNone}
  /\ Cardinality({ f \in ContentFields : tok[f] # GoodToken(tt, tok[1], tok[7])[f] }) = 1

BearerTokenOf(v) == SubSeq(v, Len(Bearer) + 1, Len(v))

\* C3: a request whose bearer token is well formed but has one of signature,
\* exp, audience, issuer or token-use marker wrong ends with 401 and an empty
\* body, and the inner service is never called for it.
C3_ContentFailure401 ==
  \A r \in Req :
    ( /\ pc[r] # "idle"
      /\ header[r].present
      /\ Len(header[r].value) = Len(Bearer) + 7
      /\ IsBearerOf(header[r].value, BearerTokenOf(header[r].value))
      /\ SinglyCorrupted(BearerTokenOf(header[r].value), token_type) ) =>
      /\ ds_calls[r] = 0
      /\ pc[r] \in {"created", "verifying", "fetching", "done"}
      /\ pc[r] = "done" => outcome[r] = UnauthorizedOutcome

C3_Witness ==
  \E r \in Req :
    /\ pc[r] = "done"
    /\ token_type = "Id"
    /\ header[r].present
    /\ header[r].value = Bearer \o Corrupted("Id", 4)
    /\ outcome[r] = UnauthorizedOutcome

\* C4: no request ends without an outcome, a finished request has exactly one
\* outcome, and the inner service is called at most once per request and only
\* after validate_token returned claims.
C4_OneOutcome ==
  \A r \in Req :
    /\ pc[r] # "panicked"
    /\ pc[r] = "done" <=> outcome[r] # NoResult
    /\ ds_calls[r] <= 1
    /\ ds_calls[r] = 1 => (validated[r].tag = "Ok" /\ validated[r].some # <<>>)

HasBearerPrefix(v) == Len(v) >= Len(Bearer) /\ SubSeq(v, 1, Len(Bearer)) = Bearer

IsText(v) == \A i \in 1..Len(v) : v[i] = 9 \/ (32 <= v[i] /\ v[i] <= 126)

\* C5: a request whose header value is text that does not begin with "Bearer "
\* ends with 400 and the inner service is not called for it.
C5_WrongScheme400 ==
  \A r \in Req :
    ( /\ pc[r] # "idle"
      /\ header[r].present
      /\ IsText(header[r].value)
      /\ ~HasBearerPrefix(header[r].value) ) =>
      /\ ds_calls[r] = 0
      /\ pc[r] = "done" => (outcome[r].kind = "Ok" /\ outcome[r].response.status = 400)

ContentErrors ==
  {"MalformedToken", "CacheMiss", "InvalidSignature", "TokenExpired", "InvalidClaim"}

InfrastructureErrors == {"NetworkError"}

\* C6: validate_token returns Ok(None) exactly when verification failed for a
\* content reason, and Err only when it failed for an infrastructure reason.
C6_FailureClasses ==
  \A r \in Req :
    validated[r] # NotValidated =>
      /\ validated[r] = ValidatedOk(<<>>) <=>
           (~verification[r].ok /\ verification[r].error \in ContentErrors)
      /\ validated[r].tag = "Err" =>
           (~verification[r].ok /\ verification[r].error \in InfrastructureErrors)

\* C7: when verification succeeds but the claims do not deserialize into UC,
\* the request ends in a server-error outcome: not a 4xx response, not the
\* missing-header response, and the inner service is not called.
C7_ShapeMismatchServerError ==
  \A r \in Req :
    ( /\ pc[r] = "done"
      /\ verification[r].ok
      /\ "sub" \notin DOMAIN verification[r].claims ) =>
      /\ ds_calls[r] = 0
      /\ outcome[r] # MissingHeaderOutcome
      /\ outcome[r].kind = "Ok" => outcome[r].response.status \notin 400..499

\* C8: when verification fails for an infrastructure reason, the request ends
\* with the missing-header 400 response, never 401, and the inner service is
\* not called.
C8_InfrastructureFailure400 ==
  \A r \in Req :
    ( /\ pc[r] = "done"
      /\ ~verification[r].ok
      /\ verification[r].error \in InfrastructureErrors ) =>
      /\ ds_calls[r] = 0
      /\ outcome[r] = MissingHeaderOutcome

\* C9: no two requests in flight own the same handle to the inner service,
\* and none owns the handle the middleware stores.
C9_OwnHandle ==
  \A r \in Req :
    InFlight(r) =>
      /\ inner[r] # 0
      /\ inner[r] # mw_inner
      /\ \A q \in Req : (q # r /\ InFlight(q)) => inner[q] # inner[r]

C9_Witness ==
  \E r, q \in Req : r # q /\ pc[r] = "verifying" /\ pc[q] = "fetching"

\* C10: a request whose header value holds a byte that is not text ends with
\* 400, the inner service is not called and validate_token is not called.
C10_NotText400 ==
  \A r \in Req :
    (pc[r] # "idle" /\ header[r].present /\ ~IsText(header[r].value)) =>
      /\ ds_calls[r] = 0
      /\ verify_calls[r] = 0
      /\ pc[r] \in {"created", "done"}
      /\ pc[r] = "done" => (outcome[r].kind = "Ok" /\ outcome[r].response.status = 400)

C10_Witness ==
  \E r \in Req : pc[r] = "done" /\ header[r].present /\ ~IsText(header[r].value)


\* What the middleware itself decided for a request: whether it forwarded it,
\* what it forwarded, and the response it made when it did not.
Decision(r) ==
  <<pc[r] = "panicked", token[r], validated[r], ds_calls[r],
    ds_request[r].header, ds_request[r].extensions,
    IF ds_calls[r] = 0 THEN outcome[r] ELSE NoResult>>

Settled(r) == pc[r] \in {"downstream", "done", "panicked"}

\* What the key directory can answer for a token: a verification against some
\* set of published keys, or a failed fetch.
DirectoryAnswers(tok, tt) ==
  { try_verify(tok, keys, tt) : keys \in {{Ch.K1}, {Ch.K1, Ch.K2}} }
    \cup {VerifyErr("NetworkError")}

\* C11: requests are verified independently. Two requests with the same
\* Authorization header that got the same answer from the key directory are
\* decided alike, whatever else went through the middleware; and what a
\* request is verified on and forwarded with comes from its own header alone.
C11_Independent ==
  /\ \A r, q \in Req :
       ( /\ Settled(r) /\ Settled(q)
         /\ header[r] = header[q]
         /\ verification[r] = verification[q] ) => Decision(r) = Decision(q)
  /\ \A r \in Req :
       /\ verify_calls[r] = 1 =>
            token[r] = trim_start(SubSeq(header[r].value, 8, Len(header[r].value)))
       /\ validated[r] # NotValidated =>
            verification[r] \in DirectoryAnswers(token[r], token_type)
       /\ ds_calls[r] = 1 =>
            /\ verification[r].ok
            /\ ds_request[r].extensions = <<[sub |-> token[r][7]]>>

\* Two requests with different tokens went through together, a rejected one
\* among them, and each was decided on its own token.
C11_Witness ==
  \E r, q \in Req :
    /\ r < q
    /\ pc[r] = "done" /\ pc[q] = "done"
    /\ ds_calls[r] = 1 /\ ds_request[r].extensions = <<[sub |-> Ch.SubB]>>
    /\ ds_calls[q] = 0 /\ outcome[q] = UnauthorizedOutcome
    /\ verify_calls[q] = 1


\* C12: construction is fail-fast. A validator, layer and middleware exist
\* only after the key set was prefetched; when KeySet::new, prefetch_jwks or
\* build fails, nothing exists that could take a request.
C12_FailFast ==
  /\ layer = "ok" => (key_set # {} /\ mw_inner # 0)
  /\ layer # "ok" =>
       /\ mw_inner = 0
       /\ key_set = {}
       /\ \A r \in Req : pc[r] = "idle"
  /\ \A r \in Req : pc[r] # "idle" => Ch.K1 \in key_set

C12_Witness == layer = "failed"


\* The cached key set is a set the provider published whole.
CompleteKeySet == key_set \in {{}, {Ch.K1}, {Ch.K1, Ch.K2}}

C14_Frame ==
  \A r \in Req :
    /\ ds_calls[r] = 1 =>
         /\ ds_request[r].method = parts[r].method
         /\ ds_request[r].uri = parts[r].uri
         /\ ds_request[r].body = parts[r].body
         /\ ds_request[r].header = header[r]
         /\ Len(ds_request[r].extensions) = 1
         /\ ds_request[r].extensions[1] = [sub |-> token[r][7]]
    /\ ds_calls[r] = 0 => ds_request[r] = NoRequest
    /\ validated[r] \in {ValidatedOk(<<>>), ValidatedErr("SerdeJson")} => ds_calls[r] = 0

C14_Witness ==
  \E r, q \in Req :
    /\ pc[r] = "done" /\ ds_calls[r] = 1
    /\ ds_request[r].method = "POST" /\ ds_request[r].body = "data"
    /\ pc[q] = "done" /\ ds_calls[q] = 0 /\ parts[q].method = "POST"


RECURSIVE trim_end(_)
trim_end(s) ==
  IF s # <<>> /\ IsWhitespace(s[Len(s)]) THEN trim_end(SubSeq(s, 1, Len(s) - 1)) ELSE s

\* C15: the token given to the verifier is the header's text without the
\* "Bearer " prefix and without the whitespace before and after the token.
C15_TokenTrimmed ==
  \A r \in Req :
    (verify_calls[r] = 1 /\ HasBearerPrefix(header[r].value)) =>
      token[r] = trim_end(trim_start(BearerTokenOf(header[r].value)))


\* C16: with a caller that drives poll_ready to Ready before each call, the
\* handle a request owns, on which the inner service is called, is the handle
\* poll_ready reported ready; the middleware stores a fresh clone, made after
\* it; and poll_ready answers what the stored handle answered.
C16_ReadyHandoff ==
  /\ \A r \in Req :
       pc[r] # "idle" =>
         /\ inner[r] \in ready
         /\ mw_inner > inner[r]
         /\ \A q \in Req : (q # r /\ pc[q] # "idle") => inner[q] # inner[r]
  /\ polled.result = polled.inner
  /\ polled.handle # 0 =>
       (polled.handle = mw_inner \/ \E r \in Req : inner[r] = polled.handle)

C16_Witness ==
  \E r \in Req :
    /\ pc[r] = "done"
    /\ ds_calls[r] = 1
    /\ inner[r] \in ready
    /\ mw_inner \notin ready
    /\ polled.handle = inner[r]

\* C17: the future resolves to Err only when the inner service was called and
\* returned that error, which is passed on as it is; what the middleware
\* rejects itself is resolved as Ok with a response.
C17_ErrOnlyFromInner ==
  \A r \in Req :
    pc[r] = "done" =>
      /\ outcome[r].kind \in {"Ok", "Err"}
      /\ outcome[r].kind = "Err" => (ds_calls[r] = 1 /\ outcome[r] = ds_result[r])
      /\ ds_result[r].kind = "Err" => outcome[r] = ds_result[r]
      /\ ds_calls[r] = 0 =>
           (outcome[r].kind = "Ok" /\ outcome[r].response.status \in {400, 401})

C17_Witness ==
  \E r, q \in Req :
    /\ pc[r] = "done" /\ outcome[r] = [kind |-> "Err", error |-> "inner error"]
    /\ pc[q] = "done" /\ validated[q] = ValidatedErr("SerdeJson")
    /\ outcome[q].kind = "Ok"

====
